---- MODULE Spec2Model ----
(***************************************************************************)
(* A model of the path tracer's core: the four recursive radiance          *)
(* estimators of camera.h (ray_color_1 .. ray_color_4) as a call-stack      *)
(* machine, the PDF objects of pdf.h they sample, the render loop of        *)
(* camera::render and the hittable_list container.                          *)
(*                                                                          *)
(* Doubles are modelled as exact extended rationals <<n, d>>: d > 0 is the  *)
(* finite value n/d in lowest terms, <<1,0>> is +inf, <<-1,0>> is -inf and  *)
(* <<0,0>> is NaN, with the IEEE results for x/0, inf*0, inf-inf.  Colours  *)
(* are triples of such values.  Directions are integer triples in units of  *)
(* 1/1000.                                                                  *)
(***************************************************************************)
EXTENDS Integers, Sequences, FiniteSets, TLC

VARIABLES
    \* ---- one evaluation of ray_color_k (camera.h 194-355) ----
    stack,               \* the call stack of ray_color_k activations
    retval,              \* the colour returned by the last activation that returned
    background,          \* camera::background
    \* ---- camera::render (camera.h 46-97) ----
    render_mode, samples_per_pixel, max_depth, image_width, aspect_ratio,
    image_height, sqrt_spp, pixel_samples_scale,
    rpc,                 \* position in render
    j, i, s_j, s_i,      \* the four loop counters
    acc,                 \* the accumulators x, y, z of the pixel being sampled
    img,                 \* the pixel buffer: img[row][col], "unset" before its write
    nwrites,             \* how often each buffer entry was assigned
    rays,                \* the get_ray calls made for the current pixel
    calls,               \* the integrator call made for the last sample
    out,                 \* what was written to std::cout
    \* ---- hittable_list (hittable_list.h) ----
    objects, bbox

intVars    == <<stack, retval, background>>
renderVars == <<render_mode, samples_per_pixel, max_depth, image_width, aspect_ratio,
                image_height, sqrt_spp, pixel_samples_scale, rpc, j, i, s_j, s_i,
                acc, img, nwrites, rays, calls, out>>
listVars   == <<objects, bbox>>
vars       == <<intVars, renderVars, listVars>>

----------------------------------------------------------------------------
(* Bounds of the model *)

MaxDepth == 2

MaxWidth == 2

MaxSpp == 4

MaxObjects == 3

----------------------------------------------------------------------------
(* double arithmetic *)

Abs(x) == IF x < 0 THEN -x ELSE x

Sign(x) == IF x < 0 THEN -1 ELSE IF x > 0 THEN 1 ELSE 0

RECURSIVE Gcd(_, _)
Gcd(a, b) == IF b = 0 THEN a ELSE Gcd(b, a % b)

\* the double n/d
Rat(n, d) ==
    IF d = 0 THEN <<Sign(n), 0>>
    ELSE LET g == Gcd(Abs(n), Abs(d))
         IN  <<Sign(d) * (n \div g), Abs(d) \div g>>

Zero == <<0, 1>>
One  == <<1, 1>>
Half == <<1, 2>>
NaN  == <<0, 0>>
Inf  == <<1, 0>>

IsFinite(a) == a[2] # 0

\* The operators below bind their operands (x, y) before they use them, so
\* that an operand is evaluated once however often the result reads it.

\* a * b
RMul(a, b) ==
    CHOOSE r \in { Rat(x[1] * y[1], x[2] * y[2]) : <<x, y>> \in {<<a, b>>} } : TRUE

\* a / b
RDiv(a, b) ==
    CHOOSE r \in { Rat(x[1] * y[2], x[2] * y[1]) : <<x, y>> \in {<<a, b>>} } : TRUE

\* a + b
RAdd(a, b) ==
    CHOOSE r \in { IF x[2] = 0 /\ y[2] = 0 THEN (IF x = y THEN x ELSE NaN)
                   ELSE Rat(x[1] * y[2] + y[1] * x[2], x[2] * y[2])
                   : <<x, y>> \in {<<a, b>>} } : TRUE

\* a <= b on doubles: false when either is NaN
RLeq(a, b) ==
    /\ a # NaN /\ b # NaN
    /\ \/ a = b
       \/ a = <<-1, 0>> \/ b = Inf
       \/ IsFinite(a) /\ IsFinite(b) /\ a[1] * b[2] <= b[1] * a[2]

(* color / vec3 arithmetic, channel by channel *)

Color(x, y, z) == <<x, y, z>>

Black == Color(Zero, Zero, Zero)

\* vec3 + vec3
CAdd(c, d) ==
    CHOOSE r \in { Color(RAdd(x[1], y[1]), RAdd(x[2], y[2]), RAdd(x[3], y[3]))
                   : <<x, y>> \in {<<c, d>>} } : TRUE

\* vec3 * vec3
CMul(c, d) ==
    CHOOSE r \in { Color(RMul(x[1], y[1]), RMul(x[2], y[2]), RMul(x[3], y[3]))
                   : <<x, y>> \in {<<c, d>>} } : TRUE

\* vec3 * double
CScale(c, t) ==
    CHOOSE r \in { Color(RMul(x[1], y), RMul(x[2], y), RMul(x[3], y))
                   : <<x, y>> \in {<<c, t>>} } : TRUE

\* vec3 / double
CDiv(c, t) ==
    CHOOSE r \in { Color(RDiv(x[1], y), RDiv(x[2], y), RDiv(x[3], y))
                   : <<x, y>> \in {<<c, t>>} } : TRUE

CFinite(c) == IsFinite(c[1]) /\ IsFinite(c[2]) /\ IsFinite(c[3])

Dot(a, b) == a[1] * b[1] + a[2] * b[2] + a[3] * b[3]

LengthSquared(a) == Dot(a, a)

----------------------------------------------------------------------------
(* The scene as the integrators see it.  world.hit, the materials and the   *)
(* densities are the geometry/material interface; what they answer is drawn *)
(* from the small sets below.                                               *)

\* dir.length_squared() < 0.0001, in units of 1/1000 squared
LenSqThreshold == 100

Dirs == { <<0, -600, -800>>, <<600, 0, -800>>, <<5, 5, 5>> }

\* rec.normal, the reference normal a Phong material hands to phong_pdf
Normal == <<0, -1000, 0>>

\* densities the lights answer (hittable_pdf::value) and densities the
\* material's PDF answers (srec.pdf_ptr->value)
LightPdfVals == { Zero, One }

BsdfPdfVals == { Zero, <<2, 1>> }

ScatVals == { Half }

LeWeights == { Zero, Half, One }

Backgrounds == { Black, Color(<<1, 4>>, Half, One) }

Grey == Color(Half, Half, Half)

\* material: emitted() and what scatter() answers
\*   scatter = "none": scatter returns false
\*   scatter = "skip": srec.skip_pdf with srec.skip_pdf_ray
\*   scatter = "pdf" : srec.pdf_ptr, of class pdf ("pdf") or phong_pdf ("phong")
Material(m) ==
    CASE m = "light"   -> [emitted |-> Color(<<4, 1>>, <<4, 1>>, <<4, 1>>), scatter |-> "none",
                           att |-> Black, pdf |-> "none"]
      [] m = "diffuse" -> [emitted |-> Black, scatter |-> "pdf", att |-> Grey, pdf |-> "pdf"]
      [] m = "phong"   -> [emitted |-> Black, scatter |-> "pdf", att |-> Grey, pdf |-> "phong"]
      [] m = "mirror"  -> [emitted |-> Black, scatter |-> "skip", att |-> Grey, pdf |-> "none"]

MaterialNames == { "light", "diffuse", "phong", "mirror" }

\* what world.hit(r, ...) answers for a ray: no hit, or rec.mat and rec.normal
HitOutcomes == { [mat |-> m, n |-> Normal] : m \in MaterialNames \cup {"miss"} }

\* no direction held (the local is not yet set, or no longer read)
NoDir == <<0, 0, 0>>

\* an activation of ray_color_v(r, depth, world, lights [, includeLe | Leweight])
\* on a ray r that world.hit answers with h; via: the call site
NewFrame(v, depth, includeLe, Leweight, h, via) ==
    [ v |-> v, depth |-> depth, includeLe |-> includeLe, Leweight |-> Leweight,
      world |-> "world", ray |-> h.mat, n |-> h.n, via |-> via, pc |-> "start",
      Le |-> Black, att |-> Black, kind |-> "none",
      dir |-> NoDir, from |-> "none",
      spdf |-> Zero, pdf |-> Zero, pdfOther |-> Zero, Ldir |-> Black, result |-> Black,
      nHit |-> 0, nScatter |-> 0, nGenerate |-> 0, nValue |-> 0, nCalls |-> 0 ]

\* a nested call that hands the depth on unchanged
SameDepth(depth) == depth

\* the depth every nested call but the light ray's receives: depth - 1
NextDepth(depth) == depth - 1

Top == stack[Len(stack)]

SetTop(f) == [stack EXCEPT ![Len(stack)] = f]

\* a nested call that hands the lights collection on as the scene
LightsAsWorld(world) == "lights"

\* the world argument of a nested call: the caller's own world
WorldArg(world) == world

\* ray_color_k(ray, depth, world, lights, ...), called from f
Call(f, callee) == Append(SetTop(f), [callee EXCEPT !.world = WorldArg(f.world)])

\* return c;
Finish(f, c) == [f EXCEPT !.pc = "done", !.result = c]

Running(v, pc) == stack # <<>> /\ Top.v = v /\ Top.pc = pc

\* where ray_color_v continues once generate() has returned
AfterGenerate(f, from) ==
    IF f.v \in {1, 2} THEN "sample" ELSE IF from = "light" THEN "nee" ELSE "bsdf"

----------------------------------------------------------------------------
(* pdf.h: generate() of the PDF objects.  A generate() call is one step,    *)
(* except phong_pdf's, whose rejection loop takes one step per iteration.   *)

restInt == <<retval, background, renderVars, listVars>>

\* the direction was drawn; ray_color_v goes on
Generated(f, d, from) ==
    [f EXCEPT !.dir = d, !.from = from, !.pc = AfterGenerate(f, from),
              !.nGenerate = @ + 1]

\* pdf::generate of srec.pdf_ptr, for the classes that draw once
\* (sphere_pdf, cosine_pdf)
PdfGenerate ==
    /\ stack # <<>> /\ Top.pc = "genB" /\ Top.kind = "pdf"
    /\ \E d \in Dirs : stack' = SetTop(Generated(Top, d, "bsdf"))
    /\ UNCHANGED restInt

\* a test that lets a candidate at right angles to n through
PhongAcceptsNonNegative(direction, n) == Dot(direction, n) >= 0

\* phong_pdf::generate, the test of line 83
PhongAccepts(direction, n) == Dot(direction, n) > 0

\* phong_pdf::generate: one iteration of while (true)
PhongPdfGenerate ==
    /\ stack # <<>> /\ Top.pc = "genB" /\ Top.kind = "phong"
    /\ \E direction \in Dirs :
         stack' = SetTop(IF PhongAccepts(direction, Top.n)
                         THEN Generated(Top, direction, "bsdf")
                         ELSE [Top EXCEPT !.dir = direction])
    /\ UNCHANGED restInt

\* hittable_pdf::generate: objects.random(origin)
HittablePdfGenerate ==
    /\ stack # <<>> /\ Top.pc = "genL"
    /\ \E d \in Dirs : stack' = SetTop(Generated(Top, d, "light"))
    /\ UNCHANGED restInt

\* mixture_pdf::generate: the coin, then p[0] (the lights) or p[1] (srec.pdf_ptr)
MixturePdfGenerate ==
    /\ stack # <<>> /\ Top.pc = "genM"
    /\ \E coin \in BOOLEAN :
         stack' = SetTop([Top EXCEPT !.pc = IF coin THEN "genL" ELSE "genB",
                                     !.nGenerate = @ + 1])
    /\ UNCHANGED restInt

\* mixture_pdf::value
MixtureValue(p0, p1) == RAdd(RMul(Half, p0), RMul(Half, p1))

----------------------------------------------------------------------------
(* camera.h 194-230: ray_color_1, BSDF sampling *)

\* a skip_pdf bounce that forgets the attenuation
SkipReturnUnattenuated(att, sub) == sub

\* the continuation of a skip_pdf bounce: attenuation * ray_color(skip_pdf_ray)
SkipReturn(att, sub) == CMul(att, sub)

\* color_from_emission + (attenuation * scattering_pdf * sample_color) / pdf_value
Estimate(Le, att, spdf, sample, pdf) ==
    CAdd(Le, CDiv(CMul(CScale(att, spdf), sample), pdf))

\* lines 197-214: up to the skip_pdf call or the draw of a direction
RayColor1_Begin ==
    /\ Running(1, "start")
    /\ LET f == Top IN
       IF f.depth <= 0 THEN stack' = SetTop(Finish(f, Black))
       ELSE IF f.ray = "miss"
       THEN stack' = SetTop(Finish([f EXCEPT !.nHit = 1], background))
       ELSE LET m == Material(f.ray)
                g == [f EXCEPT !.nHit = 1, !.Le = m.emitted, !.nScatter = 1]
            IN  CASE m.scatter = "none" -> stack' = SetTop(Finish(g, g.Le))
                  [] m.scatter = "skip" ->
                       \E h \in HitOutcomes :
                         stack' = Call([g EXCEPT !.pc = "waitS", !.att = m.att, !.nCalls = 1],
                                       NewFrame(1, NextDepth(f.depth), TRUE, One, h, "skip"))
                  [] m.scatter = "pdf" ->
                       stack' = SetTop([g EXCEPT !.pc = "genB", !.att = m.att,
                                                 !.kind = m.pdf])
    /\ UNCHANGED restInt

\* line 213, once the call has returned
RayColor1_Skip ==
    /\ Running(1, "waitS")
    /\ stack' = SetTop(Finish(Top, SkipReturn(Top.att, retval)))
    /\ UNCHANGED restInt

\* line 217
Degenerate(dir) == LengthSquared(dir) < LenSqThreshold

\* lines 217-225: the direction is checked, the densities evaluated, the call made
RayColor1_Sample ==
    /\ Running(1, "sample")
    /\ LET f == Top IN
       IF Degenerate(f.dir) THEN stack' = SetTop(Finish(f, f.Le))
       ELSE \E pdf_value \in BsdfPdfVals, scattering_pdf \in ScatVals, h \in HitOutcomes :
              stack' = Call([f EXCEPT !.pc = "wait", !.pdf = pdf_value,
                                      !.spdf = scattering_pdf,
                                      !.dir = NoDir, !.nValue = @ + 1, !.nCalls = @ + 1],
                            NewFrame(1, NextDepth(f.depth), TRUE, One, h, "bsdf"))
    /\ UNCHANGED restInt

\* lines 226-229
RayColor1_End ==
    /\ Running(1, "wait")
    /\ stack' = SetTop(Finish(Top, Estimate(Top.Le, Top.att, Top.spdf, retval, Top.pdf)))
    /\ UNCHANGED restInt

----------------------------------------------------------------------------
(* camera.h 233-268: ray_color_2, mixture sampling *)

\* lines 236-256
RayColor2_Begin ==
    /\ Running(2, "start")
    /\ LET f == Top IN
       IF f.depth <= 0 THEN stack' = SetTop(Finish(f, Black))
       ELSE IF f.ray = "miss"
       THEN stack' = SetTop(Finish([f EXCEPT !.nHit = 1], background))
       ELSE LET m == Material(f.ray)
                g == [f EXCEPT !.nHit = 1, !.Le = m.emitted, !.nScatter = 1]
            IN  CASE m.scatter = "none" -> stack' = SetTop(Finish(g, g.Le))
                  [] m.scatter = "skip" ->
                       \E h \in HitOutcomes :
                         stack' = Call([g EXCEPT !.pc = "waitS", !.att = m.att, !.nCalls = 1],
                                       NewFrame(2, NextDepth(f.depth), TRUE, One, h, "skip"))
                  [] m.scatter = "pdf" ->
                       stack' = SetTop([g EXCEPT !.pc = "genM", !.att = m.att,
                                                 !.kind = m.pdf])
    /\ UNCHANGED restInt

\* line 252, once the call has returned
RayColor2_Skip ==
    /\ Running(2, "waitS")
    /\ stack' = SetTop(Finish(Top, SkipReturn(Top.att, retval)))
    /\ UNCHANGED restInt

\* lines 258-263: no check of the direction; the mixture's density, then the call
RayColor2_Sample ==
    /\ Running(2, "sample")
    /\ LET f == Top IN
       \E p0 \in LightPdfVals, p1 \in BsdfPdfVals, scattering_pdf \in ScatVals, h \in HitOutcomes :
         stack' = Call([f EXCEPT !.pc = "wait", !.pdf = MixtureValue(p0, p1),
                                 !.spdf = scattering_pdf,
                                 !.dir = NoDir, !.nValue = @ + 3, !.nCalls = @ + 1],
                       NewFrame(2, NextDepth(f.depth), TRUE, One, h, "mixture"))
    /\ UNCHANGED restInt

\* lines 264-267
RayColor2_End ==
    /\ Running(2, "wait")
    /\ stack' = SetTop(Finish(Top, Estimate(Top.Le, Top.att, Top.spdf, retval, Top.pdf)))
    /\ UNCHANGED restInt

----------------------------------------------------------------------------
(* camera.h 271-308: ray_color_3, next-event estimation *)

\* brdf * ray_color(...) / pdf, with brdf = attenuation * scattering_pdf
Weighted(att, spdf, sub, pdf) == CDiv(CMul(CScale(att, spdf), sub), pdf)

\* ray_color_3 with the depth test of ray_color_1 ahead of the hit test
RayColor3_Begin_DepthFirst ==
    /\ Running(3, "start")
    /\ LET f == Top IN
       IF f.depth <= 0 THEN stack' = SetTop(Finish(f, Black))
       ELSE IF f.ray = "miss"
       THEN stack' = SetTop(Finish([f EXCEPT !.nHit = 1], background))
       ELSE LET m  == Material(f.ray)
                Le == IF f.includeLe THEN m.emitted ELSE Black
                k  == [f EXCEPT !.nHit = 1, !.Le = Le, !.nScatter = 1]
            IN  CASE m.scatter = "none" -> stack' = SetTop(Finish(k, Le))
                  [] m.scatter = "skip" ->
                       \E h \in HitOutcomes :
                         stack' = Call([k EXCEPT !.pc = "waitS", !.att = m.att,
                                                 !.nCalls = 1],
                                       NewFrame(3, NextDepth(f.depth), TRUE, One, h, "skip"))
                  [] m.scatter = "pdf" ->
                       stack' = SetTop([k EXCEPT !.pc = "genL", !.att = m.att,
                                                 !.kind = m.pdf])
    /\ UNCHANGED restInt

\* lines 273-295
RayColor3_Begin ==
    /\ Running(3, "start")
    /\ LET f == Top IN
       IF f.ray = "miss"
       THEN stack' = SetTop(Finish([f EXCEPT !.nHit = 1], background))
       ELSE LET m  == Material(f.ray)
                Le == IF f.includeLe THEN m.emitted ELSE Black
                g  == [f EXCEPT !.nHit = 1, !.Le = Le]
                k  == [g EXCEPT !.nScatter = 1]
            IN  IF f.depth <= 0 THEN stack' = SetTop(Finish(g, Le))
                ELSE CASE m.scatter = "none" -> stack' = SetTop(Finish(k, Le))
                       [] m.scatter = "skip" ->
                            \E h \in HitOutcomes :
                              stack' = Call([k EXCEPT !.pc = "waitS", !.att = m.att,
                                                      !.nCalls = 1],
                                            NewFrame(3, NextDepth(f.depth), TRUE, One, h, "skip"))
                       [] m.scatter = "pdf" ->
                            stack' = SetTop([k EXCEPT !.pc = "genL", !.att = m.att,
                                                      !.kind = m.pdf])
    /\ UNCHANGED restInt

\* line 291, once the call has returned
RayColor3_Skip ==
    /\ Running(3, "waitS")
    /\ stack' = SetTop(Finish(Top, SkipReturn(Top.att, retval)))
    /\ UNCHANGED restInt

\* lines 296-299: the light ray, traced with depth 0 and includeLe = true
RayColor3_Direct ==
    /\ Running(3, "nee")
    /\ LET f == Top IN
       \E scattering_pdf \in ScatVals, pdf_light \in LightPdfVals, h \in HitOutcomes :
         stack' = Call([f EXCEPT !.pc = "waitL", !.spdf = scattering_pdf,
                                 !.pdf = pdf_light,
                                 !.dir = NoDir, !.nValue = @ + 1, !.nCalls = @ + 1],
                       NewFrame(3, 0, TRUE, One, h, "light"))
    /\ UNCHANGED restInt

\* line 299, once the call has returned; then line 302 draws the BSDF direction
RayColor3_DirectEnd ==
    /\ Running(3, "waitL")
    /\ stack' = SetTop([Top EXCEPT !.Ldir = Weighted(Top.att, Top.spdf, retval, Top.pdf),
                                   !.spdf = Zero, !.pdf = Zero, !.pc = "genB"])
    /\ UNCHANGED restInt

\* a BSDF ray that suppresses emission on every other hit only
ToggledIncludeLe(includeLe) == ~includeLe

\* line 305: the includeLe argument of the BSDF ray's call, whatever the
\* caller's own includeLe is
IndirectIncludeLe(includeLe) == FALSE

\* lines 302-305: the BSDF ray, traced with depth - 1 and includeLe = false
RayColor3_Indirect ==
    /\ Running(3, "bsdf")
    /\ LET f == Top IN
       \E scattering_pdf \in ScatVals, pdf_bsdf \in BsdfPdfVals, h \in HitOutcomes :
         stack' = Call([f EXCEPT !.pc = "waitB", !.spdf = scattering_pdf,
                                 !.pdf = pdf_bsdf,
                                 !.dir = NoDir, !.nValue = @ + 1, !.nCalls = @ + 1],
                       NewFrame(3, NextDepth(f.depth), IndirectIncludeLe(f.includeLe),
                                One, h, "bsdf"))
    /\ UNCHANGED restInt

\* lines 305-307
RayColor3_End ==
    /\ Running(3, "waitB")
    /\ stack' = SetTop(Finish(Top,
                   CAdd(CAdd(Top.Le, Top.Ldir),
                        Weighted(Top.att, Top.spdf, retval, Top.pdf))))
    /\ UNCHANGED restInt

----------------------------------------------------------------------------
(* camera.h 311-355: ray_color_4, multiple importance sampling *)

\* lines 341 and 351: pow(a, 2) / (pow(a, 2) + pow(b, 2))
PowerHeuristic(a, b) == RDiv(RMul(a, a), RAdd(RMul(a, a), RMul(b, b)))

\* lines 313-335
RayColor4_Begin ==
    /\ Running(4, "start")
    /\ LET f == Top IN
       IF f.ray = "miss"
       THEN stack' = SetTop(Finish([f EXCEPT !.nHit = 1], background))
       ELSE LET m  == Material(f.ray)
                Le == CScale(m.emitted, f.Leweight)
                g  == [f EXCEPT !.nHit = 1, !.Le = Le]
                k  == [g EXCEPT !.nScatter = 1]
            IN  IF f.depth <= 0 THEN stack' = SetTop(Finish(g, Le))
                ELSE CASE m.scatter = "none" -> stack' = SetTop(Finish(k, Le))
                       [] m.scatter = "skip" ->
                            \E h \in HitOutcomes :
                              stack' = Call([k EXCEPT !.pc = "waitS", !.att = m.att,
                                                      !.nCalls = 1],
                                            NewFrame(4, NextDepth(f.depth), TRUE, One, h, "skip"))
                       [] m.scatter = "pdf" ->
                            stack' = SetTop([k EXCEPT !.pc = "genL", !.att = m.att,
                                                      !.kind = m.pdf])
    /\ UNCHANGED restInt

\* line 331, once the call has returned
RayColor4_Skip ==
    /\ Running(4, "waitS")
    /\ stack' = SetTop(Finish(Top, SkipReturn(Top.att, retval)))
    /\ UNCHANGED restInt

\* lines 336-342: the light ray, traced with depth 0 and Leweight = weight_light
RayColor4_Direct ==
    /\ Running(4, "nee")
    /\ LET f == Top IN
       \E scattering_pdf \in ScatVals, pdf_light \in LightPdfVals,
          pdf_light_bsdf \in BsdfPdfVals,
          h \in HitOutcomes :
         stack' = Call([f EXCEPT !.pc = "waitL", !.spdf = scattering_pdf,
                                 !.pdf = pdf_light, !.pdfOther = pdf_light_bsdf,
                                 !.dir = NoDir, !.nValue = @ + 2, !.nCalls = @ + 1],
                       NewFrame(4, 0, TRUE, PowerHeuristic(pdf_light, pdf_light_bsdf),
                                h, "light"))
    /\ UNCHANGED restInt

\* line 342, once the call has returned; then line 345 draws the BSDF direction
RayColor4_DirectEnd ==
    /\ Running(4, "waitL")
    /\ stack' = SetTop([Top EXCEPT !.Ldir = Weighted(Top.att, Top.spdf, retval, Top.pdf),
                                   !.spdf = Zero, !.pdf = Zero, !.pdfOther = Zero, !.pc = "genB"])
    /\ UNCHANGED restInt

\* lines 346-352: the BSDF ray, traced with depth - 1 and Leweight = weight_bsdf
RayColor4_Indirect ==
    /\ Running(4, "bsdf")
    /\ LET f == Top IN
       \E scattering_pdf \in ScatVals, pdf_bsdf \in BsdfPdfVals,
          pdf_bsdf_light \in LightPdfVals,
          h \in HitOutcomes :
         stack' = Call([f EXCEPT !.pc = "waitB", !.spdf = scattering_pdf,
                                 !.pdf = pdf_bsdf, !.pdfOther = pdf_bsdf_light,
                                 !.dir = NoDir, !.nValue = @ + 2, !.nCalls = @ + 1],
                       NewFrame(4, NextDepth(f.depth), TRUE, PowerHeuristic(pdf_bsdf, pdf_bsdf_light),
                                h, "bsdf"))
    /\ UNCHANGED restInt

\* lines 352-354
RayColor4_End ==
    /\ Running(4, "waitB")
    /\ stack' = SetTop(Finish(Top,
                   CAdd(CAdd(Top.Le, Top.Ldir),
                        Weighted(Top.att, Top.spdf, retval, Top.pdf))))
    /\ UNCHANGED restInt

----------------------------------------------------------------------------
(* the return of an activation to its caller *)

Return ==
    /\ stack # <<>> /\ Top.pc = "done"
    /\ retval' = Top.result
    /\ stack' = SubSeq(stack, 1, Len(stack) - 1)
    /\ UNCHANGED <<background, renderVars, listVars>>

----------------------------------------------------------------------------
(* camera.h 46-97 and 112-118: camera::render and camera::initialize *)

restRender == <<intVars, listVars>>

config == <<render_mode, samples_per_pixel, max_depth, image_width, aspect_ratio>>

\* int(std::sqrt(n))
IntSqrt(n) == CHOOSE r \in 0..n : r * r <= n /\ (r + 1) * (r + 1) > n

\* lines 113-114: int(image_width / aspect_ratio), at least 1
ImageHeight(w, a) ==
    LET h == (w * a[2]) \div a[1] IN IF h < 1 THEN 1 ELSE h

\* line 117: 1.0 / (sqrt_spp * sqrt_spp)
PixelSamplesScale(s) == RDiv(One, Rat(s * s, 1))

AspectRatios == { One, <<2, 1>> }

\* what ray_color_k returns for a camera ray
Radiances == { Black, Color(One, Half, Zero) }

\* lines 49-51: initialize() and the allocation of img
Render_Initialize ==
    /\ rpc = "start"
    /\ image_height' = ImageHeight(image_width, aspect_ratio)
    /\ sqrt_spp' = IntSqrt(samples_per_pixel)
    /\ pixel_samples_scale' = PixelSamplesScale(sqrt_spp')
    /\ img' = [r \in 0..(image_height' - 1) |-> [c \in 0..(image_width - 1) |-> Black]]
    /\ nwrites' = [r \in 0..(image_height' - 1) |-> [c \in 0..(image_width - 1) |-> 0]]
    /\ j' = 0 /\ i' = 0 /\ s_j' = 0 /\ s_i' = 0
    /\ acc' = Black
    /\ rpc' = IF image_height' > 0 /\ image_width > 0 THEN "pixel" ELSE "header"
    /\ UNCHANGED <<config, rays, calls, out, restRender>>

\* lines 61-74: the integrator call of the switch, as (variant, depth, flag)
IntegratorCall(mode, depth) ==
    CASE mode = 1 -> [v |-> 1, depth |-> depth, includeLe |-> TRUE, Leweight |-> One]
      [] mode = 2 -> [v |-> 2, depth |-> depth, includeLe |-> TRUE, Leweight |-> One]
      [] mode = 3 -> [v |-> 3, depth |-> depth, includeLe |-> TRUE, Leweight |-> One]
      [] mode = 4 -> [v |-> 4, depth |-> depth, includeLe |-> TRUE, Leweight |-> One]

\* sub-cell loops that run one row too far
MoreSamplesInclusive(sj, s) == sj <= s

\* lines 57-58: the sub-cell loops go on
MoreSamples(sj, s) == sj < s

\* lines 57-79: one pass of the body of the two sample loops
Render_Sample ==
    /\ rpc = "pixel" /\ MoreSamples(s_j, sqrt_spp) /\ s_i < sqrt_spp
    /\ \E c \in Radiances :
         /\ acc' = CAdd(acc, c)
         /\ rays' = Append(IF s_i = 0 /\ s_j = 0 THEN <<>> ELSE rays,
                           [i |-> i, j |-> j, s_i |-> s_i, s_j |-> s_j, c |-> c])
    /\ calls' = IntegratorCall(render_mode, max_depth)
    /\ IF s_i + 1 < sqrt_spp
       THEN s_i' = s_i + 1 /\ s_j' = s_j
       ELSE s_i' = 0 /\ s_j' = s_j + 1
    /\ UNCHANGED <<config, image_height, sqrt_spp, pixel_samples_scale, rpc, j, i,
                   img, nwrites, out, restRender>>

\* line 80
PixelColor(sum, scale) == CScale(sum, scale)

\* lines 54-56 and 80: the pixel is stored, the loops of j and i step on
Render_Pixel ==
    /\ rpc = "pixel" /\ ~(MoreSamples(s_j, sqrt_spp) /\ s_i < sqrt_spp)
    /\ img' = [img EXCEPT ![j][i] = PixelColor(acc, pixel_samples_scale)]
    /\ nwrites' = [nwrites EXCEPT ![j][i] = @ + 1]
    /\ acc' = Black /\ s_j' = 0 /\ s_i' = 0
    /\ IF i + 1 < image_width
       THEN i' = i + 1 /\ j' = j /\ rpc' = rpc
       ELSE /\ i' = 0 /\ j' = j + 1
            /\ rpc' = IF j + 1 < image_height THEN rpc ELSE "header"
    /\ UNCHANGED <<config, image_height, sqrt_spp, pixel_samples_scale, rays, calls,
                   out, restRender>>

\* lines 90-91: "P3\n" width ' ' height "\n255\n"
Render_Header ==
    /\ rpc = "header"
    /\ out' = Append(out, [kind |-> "header", width |-> image_width, height |-> image_height])
    /\ j' = 0 /\ i' = 0
    /\ rpc' = IF image_height > 0 /\ image_width > 0 THEN "write" ELSE "done"
    /\ UNCHANGED <<config, image_height, sqrt_spp, pixel_samples_scale, s_j, s_i, acc,
                   img, nwrites, rays, calls, restRender>>

\* a writer that emits the rows from the bottom up
Render_Write_BottomUp ==
    /\ rpc = "write"
    /\ out' = Append(out, [kind |-> "pixel", row |-> image_height - 1 - j, col |-> i,
                           color |-> img[image_height - 1 - j][i]])
    /\ IF i + 1 < image_width
       THEN i' = i + 1 /\ j' = j /\ rpc' = rpc
       ELSE /\ i' = 0 /\ j' = j + 1
            /\ rpc' = IF j + 1 < image_height THEN rpc ELSE "done"
    /\ UNCHANGED <<config, image_height, sqrt_spp, pixel_samples_scale, s_j, s_i, acc,
                   img, nwrites, rays, calls, restRender>>

\* lines 92-96: write_color(std::cout, img[j][i])
Render_Write ==
    /\ rpc = "write"
    /\ out' = Append(out, [kind |-> "pixel", row |-> j, col |-> i, color |-> img[j][i]])
    /\ IF i + 1 < image_width
       THEN i' = i + 1 /\ j' = j /\ rpc' = rpc
       ELSE /\ i' = 0 /\ j' = j + 1
            /\ rpc' = IF j + 1 < image_height THEN rpc ELSE "done"
    /\ UNCHANGED <<config, image_height, sqrt_spp, pixel_samples_scale, s_j, s_i, acc,
                   img, nwrites, rays, calls, restRender>>

----------------------------------------------------------------------------
(* hittable_list.h 23-36 and 54-56 *)

restList == <<intVars, renderVars>>

\* an interval is <<min, max>>; the default interval is empty
EmptyInterval == <<"empty">>

\* interval(a, b): the interval tightly enclosing two intervals
IntervalUnion(a, b) ==
    IF a = EmptyInterval THEN b
    ELSE IF b = EmptyInterval THEN a
    ELSE <<IF a[1] <= b[1] THEN a[1] ELSE b[1], IF a[2] >= b[2] THEN a[2] ELSE b[2]>>

\* aabb(): the default box, empty on every axis
EmptyBox == <<EmptyInterval, EmptyInterval, EmptyInterval>>

\* aabb(box0, box1)
Aabb(box0, box1) ==
    <<IntervalUnion(box0[1], box1[1]), IntervalUnion(box0[2], box1[2]),
      IntervalUnion(box0[3], box1[3])>>

\* object->bounding_box() of the objects a scene may add
ObjectBoxes ==
    { << <<0, 1>>, <<0, 1>>, <<0, 1>> >>,
      << <<2, 3>>, <<0, 1>>, <<-1, 0>> >>,
      << <<0, 3>>, <<-2, 2>>, <<0, 0>> >>,
      << <<-4, -3>>, <<1, 5>>, <<2, 4>> >> }

\* hittable_list::add
List_Add ==
    /\ Len(objects) < MaxObjects
    /\ \E object \in ObjectBoxes :
         /\ objects' = Append(objects, object)
         /\ bbox' = Aabb(bbox, object)
    /\ UNCHANGED restList

\* what clear() leaves in bbox
ClearedBox(box) == box

\* hittable_list::clear
List_Clear ==
    /\ objects' = <<>>
    /\ bbox' = ClearedBox(bbox)
    /\ UNCHANGED restList

\* hittable_list::bounding_box
bounding_box == bbox

----------------------------------------------------------------------------
(* Specifications *)

\* a call of ray_color_v with any depth and any extra argument
IntInit ==
    /\ background \in Backgrounds
    /\ retval = Black
    /\ \E v \in 1..4, depth \in -1..MaxDepth, h \in HitOutcomes :
         \E includeLe \in (IF v = 3 THEN BOOLEAN ELSE {TRUE}),
            Leweight \in (IF v = 4 THEN LeWeights ELSE {One}) :
           stack = <<NewFrame(v, depth, includeLe, Leweight, h, "top")>>

IntIdle == stack = <<>> /\ retval = Black /\ background = Black

\* a camera as configured, before render
RenderInit ==
    /\ render_mode \in 1..4
    /\ samples_per_pixel \in 0..MaxSpp
    /\ max_depth \in {0, MaxDepth}
    /\ image_width \in 1..MaxWidth
    /\ aspect_ratio \in AspectRatios
    /\ image_height = 0 /\ sqrt_spp = 0 /\ pixel_samples_scale = Zero
    /\ rpc = "start"
    /\ j = 0 /\ i = 0 /\ s_j = 0 /\ s_i = 0
    /\ acc = Black /\ img = <<>> /\ nwrites = <<>>
    /\ rays = <<>> /\ out = <<>>
    /\ calls = [v |-> 0, depth |-> 0, includeLe |-> TRUE, Leweight |-> One]

RenderIdle ==
    /\ render_mode = 1 /\ samples_per_pixel = 1 /\ max_depth = 0
    /\ image_width = 1 /\ aspect_ratio = One
    /\ image_height = 0 /\ sqrt_spp = 0 /\ pixel_samples_scale = Zero
    /\ rpc = "idle"
    /\ j = 0 /\ i = 0 /\ s_j = 0 /\ s_i = 0
    /\ acc = Black /\ img = <<>> /\ nwrites = <<>>
    /\ rays = <<>> /\ out = <<>>
    /\ calls = [v |-> 0, depth |-> 0, includeLe |-> TRUE, Leweight |-> One]

\* hittable_list() and hittable_list(object)
ListInit ==
    \/ objects = <<>> /\ bbox = EmptyBox
    \/ \E object \in ObjectBoxes : objects = <<object>> /\ bbox = Aabb(EmptyBox, object)

ListIdle == objects = <<>> /\ bbox = EmptyBox

Init == IntInit /\ RenderIdle /\ ListIdle

Next ==
    \/ RayColor1_Begin \/ RayColor1_Skip \/ RayColor1_Sample \/ RayColor1_End
    \/ RayColor2_Begin \/ RayColor2_Skip \/ RayColor2_Sample \/ RayColor2_End
    \/ RayColor3_Begin \/ RayColor3_Skip \/ RayColor3_Direct \/ RayColor3_DirectEnd
    \/ RayColor3_Indirect \/ RayColor3_End
    \/ RayColor4_Begin \/ RayColor4_Skip \/ RayColor4_Direct \/ RayColor4_DirectEnd
    \/ RayColor4_Indirect \/ RayColor4_End
    \/ PdfGenerate \/ PhongPdfGenerate \/ HittablePdfGenerate \/ MixturePdfGenerate
    \/ Return

Spec == Init /\ [][Next]_vars

RenderSpecInit == IntIdle /\ RenderInit /\ ListIdle

RenderNext == Render_Initialize \/ Render_Sample \/ Render_Pixel \/ Render_Header \/ Render_Write

RenderSpec == RenderSpecInit /\ [][RenderNext]_vars

ListSpecInit == IntIdle /\ RenderIdle /\ ListInit

ListNext == List_Add \/ List_Clear

ListSpec == ListSpecInit /\ [][ListNext]_vars

----------------------------------------------------------------------------
(* Properties of the integrators, checked under Spec *)

Frames == { stack[k] : k \in 1..Len(stack) }

\* an activation that has computed what it returns
Returning(f) == f.pc = "done"

NonEmissive(f) == f.ray # "miss" /\ Material(f.ray).emitted = Black

\* C1, as claimed: every variant, called with any depth and any extra
\* argument on a ray that world.hit reports as a miss, returns the background
\* colour.
C1_MissReturnsBackground ==
    \A f \in Frames : Returning(f) /\ f.ray = "miss" => f.result = background

\* C1, amended: on a ray that misses every object, ray_color_3 and
\* ray_color_4 return the background colour at every depth, ray_color_1 and
\* ray_color_2 return it at every depth >= 1, and at depth <= 0 ray_color_1
\* and ray_color_2 return black without asking world.hit.
C1_MissReturnsBackgroundUnlessSpent ==
    \A f \in Frames :
        Returning(f) /\ f.ray = "miss" =>
            IF f.v \in {1, 2} /\ f.depth <= 0
            THEN f.result = Black /\ f.nHit = 0
            ELSE f.result = background /\ f.nHit = 1

\* a nested ray_color_3 call of depth 0 has missed and returns a background
\* that is not black
C1_Witness ==
    /\ Len(stack) > 1 /\ Returning(Top)
    /\ Top.v = 3 /\ Top.depth = 0 /\ Top.ray = "miss"
    /\ Top.result = background /\ background # Black

\* C2, as claimed: every variant, called at depth 0 on a ray that hits a
\* material that emits nothing, returns zero and asks for no scatter, draws
\* and evaluates no PDF and makes no nested call.
C2_DepthZeroReturnsEmission ==
    \A f \in Frames :
        Returning(f) /\ f.depth = 0 /\ NonEmissive(f) =>
            /\ f.result = Black
            /\ f.nScatter = 0 /\ f.nGenerate = 0 /\ f.nValue = 0 /\ f.nCalls = 0

\* C3: the depths on the call stack.  A nested call is made only by an
\* activation of depth > 0 and receives a strictly smaller depth, never
\* below zero: 0 for the light ray of NEE and MIS, depth - 1 otherwise.
C3_DepthDecreases ==
    \A k \in 2..Len(stack) :
        /\ stack[k - 1].depth > 0
        /\ stack[k].depth < stack[k - 1].depth
        /\ stack[k].depth = IF stack[k].via = "light" THEN 0 ELSE stack[k - 1].depth - 1

\* the call of ray_color made for the camera ray has returned
Returned == stack = <<>>

\* phong_pdf::generate is in its rejection loop
PhongLooping == stack # <<>> /\ Top.pc = "genB" /\ Top.kind = "phong"

\* the call render makes for a camera ray (camera.h 61-74): depth is
\* max_depth, includeLe is true and Leweight is 1.0
CameraInit ==
    /\ background \in Backgrounds
    /\ retval = Black
    /\ \E v \in 1..4, depth \in 0..MaxDepth, h \in HitOutcomes :
         stack = <<NewFrame(v, depth, TRUE, One, h, "top")>>
    /\ RenderIdle /\ ListIdle

\* the evaluation of a camera ray; the processor goes on executing it as
\* long as it has a step to take
FairSpec == CameraInit /\ [][Next]_vars /\ WF_vars(Next)

\* C3, as claimed: nested depths strictly decrease, no activation of
\* depth <= 0 calls again, and therefore every evaluation eventually returns,
\* whatever hit, scatter and the PDFs answer.
C3_AlwaysReturns == []C3_DepthDecreases /\ <>Returned

\* C3, amended: nested depths strictly decrease and no activation of
\* depth <= 0 calls again, so at most depth + 1 activations are ever nested;
\* an evaluation eventually returns unless phong_pdf::generate rejects its
\* candidates for ever: that loop is while (true), and no depth bounds it.
C3_ReturnsUnlessRejecting ==
    /\ []C3_DepthDecreases
    /\ [](Len(stack) <= MaxDepth + 1)
    /\ (<>Returned \/ <>[]PhongLooping)

\* the recursion went all the way down: activations of depth MaxDepth, ..., 0
\* are nested and the innermost is about to return
C3_Witness ==
    /\ Len(stack) = MaxDepth + 1
    /\ \A k \in 1..Len(stack) : stack[k].depth = MaxDepth + 1 - k
    /\ Returning(Top)

\* C8: a direction phong_pdf::generate has returned has a strictly positive
\* dot product with the reference normal n; a candidate on the wrong side of
\* n, or at right angles to it, is never returned.
C8_PhongDirectionOnNormalSide ==
    \A f \in Frames :
        f.kind = "phong" /\ f.from = "bsdf" /\ f.pc \in {"sample", "bsdf"} =>
            Dot(f.dir, f.n) > 0

\* phong_pdf::generate has returned a direction to ray_color_4
C8_Witness ==
    /\ stack # <<>> /\ Top.v = 4 /\ Top.kind = "phong" /\ Top.pc = "bsdf"
    /\ Top.from = "bsdf" /\ Top.dir \in Dirs

\* the activation took the skip_pdf branch: it hit a material whose scatter
\* sets skip_pdf, with depth left
TookSkip(f) == f.ray # "miss" /\ Material(f.ray).scatter = "skip" /\ f.depth > 0

\* C9: in every variant, an activation whose scatter record has skip_pdf set
\* draws from no PDF and evaluates none, makes one nested call, along
\* skip_pdf_ray with depth - 1, and returns the attenuation times what that
\* call returned.
C9_SkipPdfBypassesDensities ==
    \A k \in 1..Len(stack) :
        LET f == stack[k] IN
        TookSkip(f) /\ f.pc \in {"waitS", "done"} =>
            /\ f.nGenerate = 0 /\ f.nValue = 0 /\ f.nCalls = 1
            /\ f.pc = "waitS" /\ k < Len(stack) =>
                 /\ stack[k + 1].via = "skip" /\ stack[k + 1].v = f.v
                 /\ stack[k + 1].depth = f.depth - 1
            /\ f.pc = "done" => f.result = CMul(Material(f.ray).att, retval)

\* a skip_pdf bounce of ray_color_2 returns the attenuated background
C9_Witness ==
    /\ stack # <<>> /\ Top.v = 2 /\ TookSkip(Top) /\ Returning(Top)
    /\ retval = background /\ background # Black
    /\ Top.result = CMul(Grey, background)

\* the scattered direction just drawn is shorter than the threshold of camera.h 217
HoldsDegenerate(f) == f.pc \in {"sample", "bsdf"} /\ Degenerate(f.dir)

\* C10, as claimed: in every variant, an activation that has drawn a
\* direction of squared length below 0.0001 returns its emission term in its
\* next step, with no density evaluated on that direction and no nested call.
C10_DegenerateDirectionEndsPath ==
    [][stack # <<>> /\ HoldsDegenerate(Top) =>
          stack' = SetTop(Finish(Top, Top.Le))]_vars

----------------------------------------------------------------------------
(* Properties of render, checked under RenderSpec *)

\* the sample loops of the current pixel have run to their end
PixelDone == rpc = "pixel" /\ ~(MoreSamples(s_j, sqrt_spp) /\ s_i < sqrt_spp)

\* the sub-cells the rays of the current pixel were drawn in
Cells == { <<rays[k].s_i, rays[k].s_j>> : k \in 1..Len(rays) }

\* every ray recorded belongs to pixel (i, j), and every sub-cell of the
\* s x s grid got exactly one of them
OnePerCell ==
    /\ \A k \in 1..Len(rays) : rays[k].i = i /\ rays[k].j = j
    /\ Cells = (0..(sqrt_spp - 1)) \X (0..(sqrt_spp - 1))
    /\ Cardinality(Cells) = Len(rays)

RECURSIVE SumRadiance(_, _)
\* the sum of the radiances of the first k rays
SumRadiance(rs, k) == IF k = 0 THEN Black ELSE CAdd(SumRadiance(rs, k - 1), rs[k].c)

\* the pixel the recorded rays belong to has just been stored
Stored == rays # <<>> /\ rpc \in {"pixel", "header"} /\ s_i = 0 /\ s_j = 0

\* the last pixel stored, as <<row, column>>
LastStored ==
    IF i > 0 THEN <<j, i - 1>> ELSE <<j - 1, image_width - 1>>

\* C5: the colour stored for a pixel is the sum of the radiances of its s * s
\* rays times 1 / (s * s), whatever render_mode is, and that factor is a
\* finite number for every samples_per_pixel a camera is configured with.
C5_PixelIsMeanOfSamples ==
    rpc \notin {"start", "idle"} =>
        /\ IsFinite(pixel_samples_scale)
        /\ pixel_samples_scale = Rat(1, sqrt_spp * sqrt_spp)
        /\ Stored =>
             /\ LastStored = <<rays[1].j, rays[1].i>>
             /\ img[LastStored[1]][LastStored[2]] =
                    CScale(SumRadiance(rays, Len(rays)), Rat(1, Len(rays)))
             /\ CFinite(img[LastStored[1]][LastStored[2]])

\* pixel (r, c) comes before pixel (jj, ii) in row-major order
Before(r, c, jj, ii) == r < jj \/ (r = jj /\ c < ii)

\* C6: render computes the pixels row by row from the top and column by
\* column from the left, stores each buffer entry exactly once, writes nothing
\* before every pixel is stored, and then writes the header followed by
\* exactly image_width * image_height triples, row-major from the top left.
C6_RowMajorOnceThenOutput ==
    rpc \notin {"start", "idle"} =>
        /\ \A r \in 0..(image_height - 1), c \in 0..(image_width - 1) :
             nwrites[r][c] = IF rpc = "pixel" /\ ~Before(r, c, j, i) THEN 0 ELSE 1
        /\ rpc \in {"pixel", "header"} => out = <<>>
        /\ rpc \in {"write", "done"} =>
             /\ Len(out) >= 1 /\ out[1].kind = "header"
             /\ out[1].width = image_width /\ out[1].height = image_height
             /\ \A k \in 2..Len(out) :
                  /\ out[k].kind = "pixel"
                  /\ out[k].row = (k - 2) \div image_width
                  /\ out[k].col = (k - 2) % image_width
                  /\ out[k].color = img[out[k].row][out[k].col]
        /\ rpc = "write" => Len(out) = 1 + j * image_width + i
        /\ rpc = "done" => Len(out) = 1 + image_width * image_height

\* a 2 x 2 image has been written out in full
C6_Witness ==
    /\ rpc = "done" /\ image_width = 2 /\ image_height = 2 /\ Len(out) = 5
    /\ out[4].row = 1 /\ out[4].col = 0

----------------------------------------------------------------------------
(* Properties of hittable_list, checked under ListSpec *)

\* the least and the greatest bound of the objects on one axis
AxisHull(objs, a) ==
    IF objs = <<>> THEN EmptyInterval
    ELSE << CHOOSE lo \in { objs[k][a][1] : k \in 1..Len(objs) } :
                \A k \in 1..Len(objs) : lo <= objs[k][a][1],
            CHOOSE hi \in { objs[k][a][2] : k \in 1..Len(objs) } :
                \A k \in 1..Len(objs) : hi >= objs[k][a][2] >>

\* the minimal axis-aligned box enclosing the objects
Enclosing(objs) == <<AxisHull(objs, 1), AxisHull(objs, 2), AxisHull(objs, 3)>>

\* C7: after any sequence of add and clear, bounding_box() is the minimal
\* axis-aligned box enclosing the objects the list holds, and the empty box
\* when it holds none.
C7_BoundingBoxEnclosesMembers == bounding_box = Enclosing(objects)

----------------------------------------------------------------------------
(* Properties of the estimators' arithmetic, checked under Spec *)

\* C11: in every variant no non-finite colour is returned: where a density
\* used as a denominator (pdf_value, pdf_light, pdf_bsdf, the sum of squares
\* of the MIS weight) is zero, the estimator does not divide by it.
C11_ZeroDensityNotDivided ==
    \A f \in Frames : Returning(f) => CFinite(f.result)

----------------------------------------------------------------------------
(* Properties of NEE and MIS, checked under Spec *)

\* the activation of ray_color_3 has hit an object and computed Le
HasLe3(f) == f.v = 3 /\ f.ray # "miss" /\ f.pc # "start"

\* what every activation of ray_color_3 takes as its own emission
LeFollowsFlag ==
    \A f \in Frames :
        HasLe3(f) => f.Le = IF f.includeLe THEN Material(f.ray).emitted ELSE Black

\* C12, as claimed: in ray_color_3 the light ray's call has depth 0 and
\* includes emission; the BSDF ray's call suppresses emission on the hit it
\* reaches from a vertex that was not itself reached by a BSDF ray, and the
\* hit reached by the next BSDF ray, two indirect bounces in, evaluates its
\* emission again.
C12_EmissionReenabledOneBounceIn ==
    /\ LeFollowsFlag
    /\ \A k \in 2..Len(stack) :
         stack[k].v = 3 =>
            /\ stack[k].via = "light" => stack[k].includeLe /\ stack[k].depth = 0
            /\ stack[k].via = "bsdf" => stack[k].includeLe = (stack[k - 1].via = "bsdf")

\* C12, amended: in ray_color_3 the BSDF ray's call suppresses emission on
\* the hit it reaches at every bounce of a chain of non-specular bounces, not
\* only the first; emission is evaluated on the hit of the light ray's depth-0
\* call and on the hit of a skip_pdf ray, both called with includeLe = true.
C12_EmissionSuppressedOnEveryIndirectHit ==
    /\ LeFollowsFlag
    /\ \A k \in 2..Len(stack) :
         stack[k].v = 3 =>
            /\ stack[k].via = "light" => stack[k].includeLe /\ stack[k].depth = 0
            /\ stack[k].via = "skip" => stack[k].includeLe
            /\ stack[k].via = "bsdf" => ~stack[k].includeLe

\* two BSDF bounces in a row: the second reaches a light and takes no
\* emission from it
C12_Witness ==
    /\ Len(stack) = 3 /\ stack[1].v = 3
    /\ stack[2].via = "bsdf" /\ stack[3].via = "bsdf"
    /\ stack[3].ray = "light" /\ Returning(stack[3])
    /\ ~stack[3].includeLe /\ stack[3].result = Black

\* a^2 / (a^2 + b^2)
SquareShare(a, b) == RDiv(RMul(a, a), RAdd(RMul(a, a), RMul(b, b)))

\* C13: in ray_color_4 the Leweight of the call made for a sampled direction
\* is pdf_A^2 / (pdf_A^2 + pdf_B^2), pdf_A the density of the technique that
\* drew the direction and pdf_B the density the other technique gives it
\* (light ray: light PDF and material PDF; BSDF ray: material PDF and light
\* PDF); the weight lies in [0, 1], the two techniques' weights for the
\* direction sum to 1, and the hit reached multiplies its emission by
\* exactly the weight passed down.
C13_PowerHeuristicWeights ==
    /\ \A f \in Frames :
         f.v = 4 /\ f.ray # "miss" /\ f.pc # "start" =>
             f.Le = CScale(Material(f.ray).emitted, f.Leweight)
    /\ \A k \in 2..Len(stack) :
         stack[k].v = 4 /\ stack[k].via \in {"light", "bsdf"} =>
            LET a == stack[k - 1].pdf
                b == stack[k - 1].pdfOther
                w == stack[k].Leweight
            IN  /\ stack[k - 1].pc = IF stack[k].via = "light" THEN "waitL" ELSE "waitB"
                /\ w = SquareShare(a, b)
                /\ RLeq(Zero, w) /\ RLeq(w, One)
                /\ RAdd(w, SquareShare(b, a)) = One

----------------------------------------------------------------------------
(* Properties of the lights collection, checked under Spec *)

\* the activation has asked the material of its hit record for emitted,
\* scatter or scattering_pdf
MaterialQueried(f) ==
    /\ f.nHit = 1 /\ f.ray # "miss"
    /\ f.v = 3 => f.includeLe \/ f.nScatter > 0

\* the collections whose objects had their material dereferenced by the
\* activation: that of the hit record, filled by world.hit
MaterialsRead(f) == IF MaterialQueried(f) THEN {f.world} ELSE {}

\* the materials object->pdf_value and object->random of a light read
LightObjectReads == {}

\* the activation has sampled or evaluated the lights through hittable_pdf
LightsUsed(f) == f.from = "light" \/ (f.v \in {2, 3, 4} /\ f.nValue > 0)

====
